---- MODULE Spec2Model ----
(***************************************************************************)
(* Model of ical2orgpy.py: the timestamp helpers orgDatetime and orgDate,   *)
(* the entry formatter Convertor.create_entry, and the conversion driver    *)
(* (main, Convertor.__call__, Convertor.create_org_calendar).               *)
(*                                                                         *)
(* Text is modelled as a sequence of one-character strings, so that        *)
(* replace, split, join and strftime are computed character by character.  *)
(* A timezone-aware datetime is [kind |-> "datetime", val, off]: val is the *)
(* instant in minutes since 1970-01-01T00:00Z and off the UTC offset (in    *)
(* minutes) of its tzinfo.  A plain date is [kind |-> "date", val, off]    *)
(* with val the day number since 1970-01-01 and off = 0.  A timedelta is a  *)
(* number of minutes.  A component is a function from the property names   *)
(* it holds to their values, so `"DTEND" in comp` is "DTEND" \in DOMAIN.    *)
(***************************************************************************)
EXTENDS Integers, Sequences, FiniteSets, TLC

VARIABLES
    pc,        \* position of the command-line run
    argv,      \* the command line: [days, timezone, continue_on_error]
    infile,    \* the input document: what Calendar.from_ical makes of it
    convertor, \* the Convertor object: [tz, days, continue_on_error]
    idx,       \* occurrences the generator has taken from the expander
    blocks,    \* blocks yielded by create_org_calendar to "".join
    written,   \* the writes received by the output stream, in order
    stdout,    \* lines echoed to standard output
    stderr,    \* diagnostics printed to standard error
    exc,       \* the exception in flight or that ended the run
    call,      \* direct call of a function: its name and arguments
    ret        \* result of that call

vars == <<pc, argv, infile, convertor, idx, blocks, written, stdout, stderr, exc, call, ret>>

runVars == <<pc, argv, infile, convertor, idx, blocks, written, stdout, stderr, exc>>

-----------------------------------------------------------------------------
(* Calendar arithmetic of datetime.date / datetime.datetime.                *)

IsLeap(y) == (y % 4 = 0) /\ ((y % 100 # 0) \/ (y % 400 = 0))

\* civil date (year, month, day) of a day number since 1970-01-01
CivilFromDays(n) ==
    LET z    == n + 719468
        era  == z \div 146097
        doe  == z - era * 146097
        yoe  == (doe - (doe \div 1460) + (doe \div 36524) - (doe \div 146096)) \div 365
        doy  == doe - (365 * yoe + (yoe \div 4) - (yoe \div 100))
        mp   == (5 * doy + 2) \div 153
        d    == doy - ((153 * mp + 2) \div 5) + 1
        m    == IF mp < 10 THEN mp + 3 ELSE mp - 9
        y    == yoe + era * 400 + (IF m <= 2 THEN 1 ELSE 0)
    IN  [year |-> y, month |-> m, day |-> d]

\* date.weekday(): Monday = 0 ... Sunday = 6
Weekday(n) == (n + 3) % 7

\* timedelta(days=k)
timedelta_days(k) == k * 1440

\* date + timedelta and datetime + timedelta: a date keeps only whole days
AddDelta(x, delta) ==
    IF x.kind = "date"
    THEN [x EXCEPT !.val = x.val + (delta \div 1440)]
    ELSE [x EXCEPT !.val = x.val + delta]

-----------------------------------------------------------------------------
(* pytz timezones: the UTC offset, in minutes, in force at an instant.      *)

all_timezones == {"UTC", "Europe/Prague", "America/New_York", "Asia/Kolkata"}

\* daylight-saving periods [from, to) as instants (minutes since the epoch)
DstPeriods(tz) ==
    IF tz = "Europe/Prague" THEN
        { <<24841500, 25153980>>,     \* 2017-03-26T01:00Z .. 2017-10-29T01:00Z
          <<25365660, 25678140>>,     \* 2018-03-25T01:00Z .. 2018-10-28T01:00Z
          <<25899900, 26202300>>,     \* 2019-03-31T01:00Z .. 2019-10-27T01:00Z
          <<26424060, 26726460>> }    \* 2020-03-29T01:00Z .. 2020-10-25T01:00Z
    ELSE IF tz = "America/New_York" THEN
        { <<24821700, 25164360>>,     \* 2017-03-12T07:00Z .. 2017-11-05T06:00Z
          <<25345860, 25688520>>,     \* 2018-03-11T07:00Z .. 2018-11-04T06:00Z
          <<25870020, 26212680>>,     \* 2019-03-10T07:00Z .. 2019-11-03T06:00Z
          <<26394180, 26736840>> }    \* 2020-03-08T07:00Z .. 2020-11-01T06:00Z
    ELSE {}

StdOffset(tz) ==
    CASE tz = "UTC"              -> 0
      [] tz = "Europe/Prague"    -> 60
      [] tz = "America/New_York" -> 0 - 300
      [] tz = "Asia/Kolkata"     -> 330

utcoffset(tz, instant) ==
    IF \E p \in DstPeriods(tz) : p[1] <= instant /\ instant < p[2]
    THEN StdOffset(tz) + 60
    ELSE StdOffset(tz)

\* datetime.astimezone(tz): the same instant, carried in tz
astimezone(dt, tz) == [dt EXCEPT !.off = utcoffset(tz, dt.val)]

-----------------------------------------------------------------------------
(* strftime                                                                *)

DigitChars == <<"0", "1", "2", "3", "4", "5", "6", "7", "8", "9">>

DayNames == << <<"M","o","n">>, <<"T","u","e">>, <<"W","e","d">>, <<"T","h","u">>,
               <<"F","r","i">>, <<"S","a","t">>, <<"S","u","n">> >>

\* %02d
Pad2(n) == <<DigitChars[((n \div 10) % 10) + 1], DigitChars[(n % 10) + 1]>>

\* %Y for a four-digit year
Pad4(n) == Pad2(n \div 100) \o Pad2(n % 100)

\* local day number and minute of the day of a date or datetime
LocalDay(x) == IF x.kind = "date" THEN x.val ELSE (x.val + x.off) \div 1440

LocalMinute(x) == IF x.kind = "date" THEN 0 ELSE (x.val + x.off) % 1440

\* %Y-%m-%d %a
StrfDate(x) ==
    LET c == CivilFromDays(LocalDay(x))
    IN  Pad4(c.year) \o <<"-">> \o Pad2(c.month) \o <<"-">> \o Pad2(c.day)
        \o <<" ">> \o DayNames[Weekday(LocalDay(x)) + 1]

\* %H:%M
StrfTime(x) ==
    Pad2(LocalMinute(x) \div 60) \o <<":">> \o Pad2(LocalMinute(x) % 60)

\* orgDatetime without the conversion into tz
orgDatetime_NoConversion(dt, tz) ==
    <<"<">> \o StrfDate(dt) \o <<" ">> \o StrfTime(dt) \o <<">">>

orgDatetime(dt, tz) ==
    LET l == astimezone(dt, tz)
    IN  <<"<">> \o StrfDate(l) \o <<" ">> \o StrfTime(l) \o <<">">>

\* orgDate without the conversion into tz
orgDate_NoConversion(dt, tz) == <<"<">> \o StrfDate(dt) \o <<">">>

orgDate(dt, tz) ==
    LET l == IF dt.kind = "datetime" THEN astimezone(dt, tz) ELSE dt
    IN  <<"<">> \o StrfDate(l) \o <<">">>

-----------------------------------------------------------------------------
(* Text operations used by create_entry.                                   *)

RECURSIVE Flatten(_)
\* "".join(parts)
Flatten(parts) ==
    IF parts = <<>> THEN <<>> ELSE Head(parts) \o Flatten(Tail(parts))

StartsWith(s, p) == Len(s) >= Len(p) /\ SubSeq(s, 1, Len(p)) = p

RECURSIVE Replace(_, _, _)
\* s.replace(old, new) for a non-empty old: leftmost matches, not overlapping
Replace(s, old, new) ==
    IF s = <<>> THEN <<>>
    ELSE IF StartsWith(s, old)
         THEN new \o Replace(SubSeq(s, Len(old) + 1, Len(s)), old, new)
         ELSE <<Head(s)>> \o Replace(Tail(s), old, new)

RECURSIVE Split(_, _)
\* s.split(sep) for a non-empty sep
Split(s, sep) ==
    IF \E k \in 1..Len(s) : StartsWith(SubSeq(s, k, Len(s)), sep)
    THEN LET k == CHOOSE j \in 1..Len(s) :
                      /\ StartsWith(SubSeq(s, j, Len(s)), sep)
                      /\ \A h \in 1..(j - 1) : ~StartsWith(SubSeq(s, h, Len(s)), sep)
         IN  <<SubSeq(s, 1, k - 1)>> \o Split(SubSeq(s, k + Len(sep), Len(s)), sep)
    ELSE <<s>>

RECURSIVE Join(_, _)
\* sep.join(parts)
Join(sep, parts) ==
    IF parts = <<>> THEN <<>>
    ELSE IF Len(parts) = 1 THEN parts[1]
    ELSE parts[1] \o sep \o Join(sep, Tail(parts))

RECURSIVE ToIcal(_)
\* vText.to_ical().decode("utf-8"): the property value in its escaped form
ToIcal(text) ==
    IF text = <<>> THEN <<>>
    ELSE (CASE Head(text) = "\\" -> <<"\\", "\\">>
            [] Head(text) = ";"  -> <<"\\", ";">>
            [] Head(text) = ","  -> <<"\\", ",">>
            [] Head(text) = "\n" -> <<"\\", "n">>
            [] OTHER             -> <<Head(text)>>) \o ToIcal(Tail(text))

-----------------------------------------------------------------------------
(* Convertor.create_entry                                                  *)

RECUR_TAG == <<"\t", ":", "R", "E", "C", "U", "R", "R", "I", "N", "G", ":">>

NoTitle == <<"(", "N", "o", " ", "t", "i", "t", "l", "e", ")">>

None == [kind |-> "None", val |-> 0, off |-> 0]

\* comp[key].to_ical().decode("utf-8").replace("\\,", ","), or "" without key
FieldText(comp, key) ==
    IF key \in DOMAIN comp
    THEN Replace(ToIcal(comp[key]), <<"\\", ",">>, <<",">>)
    ELSE <<>>

\* the heading with the conditional applied to summary + " - " + location as a whole
HeadingLine_WholeConditional(comp) ==
    LET summary  == FieldText(comp, "SUMMARY")
        location == FieldText(comp, "LOCATION")
        title    == IF summary = <<>> /\ location = <<>>
                    THEN NoTitle
                    ELSE IF location # <<>>
                         THEN summary \o <<" ", "-", " ">> \o location
                         ELSE <<>>
        tag      == IF "RRULE" \in DOMAIN comp THEN RECUR_TAG ELSE <<>>
    IN  <<"*", " ">> \o title \o tag \o <<"\n">>

\* the heading: "* {}{}\n".format(summary, tag)
HeadingLine(comp) ==
    LET summary  == FieldText(comp, "SUMMARY")
        location == FieldText(comp, "LOCATION")
        title    == IF summary = <<>> /\ location = <<>>
                    THEN NoTitle
                    ELSE summary \o (IF location # <<>>
                                     THEN <<" ", "-", " ">> \o location
                                     ELSE <<>>)
        tag      == IF "RRULE" \in DOMAIN comp THEN RECUR_TAG ELSE <<>>
    IN  <<"*", " ">> \o title \o tag \o <<"\n">>

\* ev_start, ev_end and duration; datetime - date and date - datetime raise
EventTimes(comp) ==
    LET ev_start == IF "DTSTART" \in DOMAIN comp THEN comp["DTSTART"] ELSE None
    IN  IF "DTEND" \in DOMAIN comp
        THEN IF ev_start # None /\ comp["DTEND"].kind # ev_start.kind
             THEN [raised |-> "TypeError", ev_start |-> ev_start, ev_end |-> comp["DTEND"]]
             ELSE [raised |-> "None", ev_start |-> ev_start, ev_end |-> comp["DTEND"]]
        ELSE IF "DURATION" \in DOMAIN comp /\ ev_start # None
        THEN [raised |-> "None", ev_start |-> ev_start,
              ev_end |-> AddDelta(ev_start, comp["DURATION"])]
        ELSE [raised |-> "None", ev_start |-> ev_start, ev_end |-> None]

\* the timestamp line with the end of an all-day range shown as given
TimestampLine_InclusiveEnd(ev_start, ev_end, tz) ==
    IF ev_start.kind = "datetime"
    THEN IF ev_end = None
         THEN [raised |-> "AttributeError", text |-> <<>>]
         ELSE [raised |-> "None",
               text |-> <<" ", " ">> \o orgDatetime(ev_start, tz) \o <<"-", "-">>
                        \o orgDatetime(ev_end, tz) \o <<"\n">>]
    ELSE IF ev_start.kind = "date"
    THEN IF ev_end = None
         THEN [raised |-> "TypeError", text |-> <<>>]
         ELSE IF ev_start = AddDelta(ev_end, 0 - timedelta_days(1))
         THEN [raised |-> "None",
               text |-> <<" ", " ">> \o orgDate(ev_start, tz) \o <<"\n">>]
         ELSE [raised |-> "None",
               text |-> <<" ", " ">> \o orgDate(ev_start, tz) \o <<"-", "-">>
                        \o orgDate(ev_end, tz) \o <<"\n">>]
    ELSE [raised |-> "None", text |-> <<>>]

\* the timestamp line for ev_start and ev_end in the display timezone
TimestampLine(ev_start, ev_end, tz) ==
    IF ev_start.kind = "datetime"
    THEN IF ev_end = None
         THEN [raised |-> "AttributeError", text |-> <<>>]
         ELSE [raised |-> "None",
               text |-> <<" ", " ">> \o orgDatetime(ev_start, tz) \o <<"-", "-">>
                        \o orgDatetime(ev_end, tz) \o <<"\n">>]
    ELSE IF ev_start.kind = "date"
    THEN IF ev_end = None
         THEN [raised |-> "TypeError", text |-> <<>>]
         ELSE IF ev_start = AddDelta(ev_end, 0 - timedelta_days(1))
         THEN [raised |-> "None",
               text |-> <<" ", " ">> \o orgDate(ev_start, tz) \o <<"\n">>]
         ELSE [raised |-> "None",
               text |-> <<" ", " ">> \o orgDate(ev_start, tz) \o <<"-", "-">>
                        \o orgDate(AddDelta(ev_end, 0 - timedelta_days(1)), tz)
                        \o <<"\n">>]
    ELSE [raised |-> "None", text |-> <<>>]

\* the description block: escaped line breaks and commas restored
DescriptionBlock(comp) ==
    IF "DESCRIPTION" \in DOMAIN comp
    THEN Replace(Join(<<"\n">>, Split(ToIcal(comp["DESCRIPTION"]), <<"\\", "n">>)),
                 <<"\\", ",">>, <<",">>) \o <<"\n">>
    ELSE <<>>

\* the block of one occurrence, or the exception create_entry raises
create_entry(comp, tz) ==
    LET times == EventTimes(comp)
        stamp == TimestampLine(times.ev_start, times.ev_end, tz)
    IN  IF times.raised # "None" THEN [raised |-> times.raised, text |-> <<>>]
        ELSE IF stamp.raised # "None" THEN [raised |-> stamp.raised, text |-> <<>>]
        ELSE [raised |-> "None",
              text |-> Flatten(<<HeadingLine(comp), stamp.text,
                                 DescriptionBlock(comp), <<"\n">>>>)]

-----------------------------------------------------------------------------
(* Direct calls of orgDatetime and orgDate, as tests/test_datetime.py makes. *)

NoCall == [fn |-> "none"]

NoExc == [type |-> "None", msg |-> ""]

\* the days 2017-12-15, 2017-12-31, 2019-02-28, 2020-02-28, 2020-02-29,
\* 2020-03-29 and 2020-10-25 (the last two change the offset of Europe/Prague)
TestDays == {17515, 17531, 17955, 18320, 18321, 18350, 18560}

\* 00:00, 00:59, 01:00, 17:35, 18:35 and 23:30
TestMinutes == {0, 59, 60, 1055, 1115, 1410}

\* UTC offsets of the tzinfo the tested datetimes carry
TestOffsets == {0, 0 - 300}

AwareDatetimes ==
    { [kind |-> "datetime", val |-> d * 1440 + m, off |-> o] :
        d \in TestDays, m \in TestMinutes, o \in TestOffsets }

PlainDates == { [kind |-> "date", val |-> d, off |-> 0] : d \in TestDays }

IdleRun ==
    /\ pc = "idle"
    /\ argv = [days |-> 90, timezone |-> "None", continue_on_error |-> FALSE]
    /\ infile = [ok |-> TRUE, error |-> "", events |-> <<>>]
    /\ convertor = [tz |-> "None", days |-> 0, continue_on_error |-> FALSE]
    /\ idx = 0
    /\ blocks = <<>>
    /\ written = <<>>
    /\ stdout = <<>>
    /\ stderr = <<>>
    /\ exc = NoExc

InitDate == IdleRun /\ call = NoCall /\ ret = <<>>

CallOrgDatetime ==
    /\ call = NoCall
    /\ \E dt \in AwareDatetimes, tz \in all_timezones :
        /\ call' = [fn |-> "orgDatetime", dt |-> dt, tz |-> tz]
        /\ ret' = orgDatetime(dt, tz)
        /\ UNCHANGED runVars

CallOrgDate ==
    /\ call = NoCall
    /\ \E dt \in AwareDatetimes \cup PlainDates, tz \in all_timezones :
        /\ call' = [fn |-> "orgDate", dt |-> dt, tz |-> tz]
        /\ ret' = orgDate(dt, tz)
        /\ UNCHANGED runVars

NextDate == CallOrgDatetime \/ CallOrgDate

SpecDate == InitDate /\ [][NextDate]_vars

-----------------------------------------------------------------------------
(* Reading a rendered timestamp back: the calendar the claims refer to.     *)

DigitValue(c) == CHOOSE v \in 0..9 : DigitChars[v + 1] = c

IsDigit(c) == \E v \in 0..9 : DigitChars[v + 1] = c

AllDigits(s) == \A k \in 1..Len(s) : IsDigit(s[k])

RECURSIVE ReadNumber(_)
ReadNumber(s) ==
    IF s = <<>> THEN 0
    ELSE 10 * ReadNumber(SubSeq(s, 1, Len(s) - 1)) + DigitValue(s[Len(s)])

DaysInMonth(y, m) ==
    IF m = 2 THEN (IF IsLeap(y) THEN 29 ELSE 28)
    ELSE IF m \in {4, 6, 9, 11} THEN 30 ELSE 31

RECURSIVE DaysBeforeMonth(_, _)
DaysBeforeMonth(y, m) ==
    IF m = 1 THEN 0 ELSE DaysBeforeMonth(y, m - 1) + DaysInMonth(y, m - 1)

LeapYearsBefore(y) == ((y - 1) \div 4) - ((y - 1) \div 100) + ((y - 1) \div 400)

\* day number since 1970-01-01 of a civil date, counted year by year
DaysFromCivil(y, m, d) ==
    (y - 1970) * 365 + (LeapYearsBefore(y) - LeapYearsBefore(1970))
    + DaysBeforeMonth(y, m) + (d - 1)

\* Zeller's congruence: 0 = Saturday, 1 = Sunday, 2 = Monday, ...
Zeller(y, m, d) ==
    LET mm == IF m < 3 THEN m + 12 ELSE m
        yy == IF m < 3 THEN y - 1 ELSE y
        k  == yy % 100
        j  == yy \div 100
    IN  (d + ((13 * (mm + 1)) \div 5) + k + (k \div 4) + (j \div 4) + 5 * j) % 7

ZellerNames == << <<"S","a","t">>, <<"S","u","n">>, <<"M","o","n">>, <<"T","u","e">>,
                  <<"W","e","d">>, <<"T","h","u">>, <<"F","r","i">> >>

\* s starts with <YYYY-MM-DD Dow for a valid civil date and its weekday
ShowsDate(s) ==
    /\ Len(s) >= 15
    /\ s[1] = "<" /\ s[6] = "-" /\ s[9] = "-" /\ s[12] = " "
    /\ AllDigits(SubSeq(s, 2, 5)) /\ AllDigits(SubSeq(s, 7, 8)) /\ AllDigits(SubSeq(s, 10, 11))
    /\ LET y == ReadNumber(SubSeq(s, 2, 5))
           m == ReadNumber(SubSeq(s, 7, 8))
           d == ReadNumber(SubSeq(s, 10, 11))
       IN  /\ m \in 1..12
           /\ d \in 1..DaysInMonth(y, m)
           /\ SubSeq(s, 13, 15) = ZellerNames[Zeller(y, m, d) + 1]

\* the day number of the date s shows
ShownDay(s) ==
    DaysFromCivil(ReadNumber(SubSeq(s, 2, 5)), ReadNumber(SubSeq(s, 7, 8)),
                  ReadNumber(SubSeq(s, 10, 11)))

\* s is <YYYY-MM-DD Dow HH:MM> with a valid 24-hour zero-padded time
ShowsDatetime(s) ==
    /\ Len(s) = 22
    /\ ShowsDate(s)
    /\ s[16] = " " /\ s[19] = ":" /\ s[22] = ">"
    /\ AllDigits(SubSeq(s, 17, 18)) /\ AllDigits(SubSeq(s, 20, 21))
    /\ ReadNumber(SubSeq(s, 17, 18)) \in 0..23
    /\ ReadNumber(SubSeq(s, 20, 21)) \in 0..59

\* the minute of the day s shows
ShownMinute(s) == 60 * ReadNumber(SubSeq(s, 17, 18)) + ReadNumber(SubSeq(s, 20, 21))

\* C7: orgDatetime(dt, tz) is <YYYY-MM-DD Dow HH:MM> for the local date, weekday
\* and time of the instant dt after conversion into tz.
C7_OrgDatetimeIsLocalTime ==
    call.fn = "orgDatetime" =>
        /\ ShowsDatetime(ret)
        /\ ShownDay(ret) * 1440 + ShownMinute(ret)
             = call.dt.val + utcoffset(call.tz, call.dt.val)

\* the conversion moves 2017-12-31T23:30Z into the next day and year
C7_Witness ==
    /\ call.fn = "orgDatetime"
    /\ call.dt.val = 17531 * 1440 + 1410
    /\ call.tz = "Europe/Prague"
    /\ ret = <<"<","2","0","1","8","-","0","1","-","0","1"," ","M","o","n"," ","0","0",":","3","0",">">>

\* C8: orgDate drops the time of day: for an aware datetime it shows the date
\* orgDatetime shows after conversion into tz, for a plain date the date itself,
\* whatever tz is.
C8_OrgDateIsLocalDate ==
    call.fn = "orgDate" =>
        /\ Len(ret) = 16
        /\ ShowsDate(ret)
        /\ ret[16] = ">"
        /\ call.dt.kind = "datetime" =>
              /\ SubSeq(ret, 1, 15) = SubSeq(orgDatetime(call.dt, call.tz), 1, 15)
              /\ ShownDay(ret) = (call.dt.val + utcoffset(call.tz, call.dt.val)) \div 1440
        /\ call.dt.kind = "date" => ShownDay(ret) = call.dt.val

\* 2017-12-15T18:35Z in Europe/Prague loses its time of day
C8_Witness ==
    /\ call.fn = "orgDate"
    /\ call.dt.kind = "datetime"
    /\ call.dt.val = 17515 * 1440 + 1115
    /\ call.tz = "Europe/Prague"
    /\ ret = <<"<","2","0","1","7","-","1","2","-","1","5"," ","F","r","i",">">>

-----------------------------------------------------------------------------
(* Direct calls of create_entry on one occurrence.                          *)

\* longest SUMMARY and LOCATION text tried
MaxText == 1

\* longest all-day event tried, in days from DTSTART to DTEND
MaxSpan == 3

TextChars == {"a", ",", "\\"}

RECURSIVE TextsOfLength(_)
TextsOfLength(n) ==
    IF n = 0 THEN {<<>>}
    ELSE { <<c>> \o t : c \in TextChars, t \in TextsOfLength(n - 1) }

Texts == UNION { TextsOfLength(n) : n \in 0..MaxText }

\* one property of a component, or none when the option is empty
Prop(key, option) == IF option = <<>> THEN <<>> ELSE key :> option[1]

Optional(values) == {<<>>} \cup { <<v>> : v \in values }

Descriptions == { <<>>, <<"a", "\n", ",", "b">>, <<"\\", "n">> }

\* 2020-01-01 and 2020-02-28
EntryDates == { [kind |-> "date", val |-> d, off |-> 0] : d \in {18262, 18320} }

\* 2017-12-15T17:35Z and 2017-12-31T23:30Z
EntryDatetimes ==
    { [kind |-> "datetime", val |-> m, off |-> 0] : m \in {17515 * 1440 + 1055, 17531 * 1440 + 1410} }

\* timedeltas of 0 minutes, 90 minutes and one day
EntryDeltas == {0, 90, 1440}

\* DTSTART, DTEND and DURATION of an occurrence: start and end of one kind,
\* DURATION only without DTEND
TimeProps ==
    {<<>>}
    \cup { "DTEND" :> d : d \in EntryDates }
    \cup { "DTSTART" :> st : st \in EntryDates \cup EntryDatetimes }
    \cup { ("DTSTART" :> st) @@ ("DTEND" :> AddDelta(st, timedelta_days(k))) :
             st \in EntryDates, k \in 0..MaxSpan }
    \cup { ("DTSTART" :> st) @@ ("DURATION" :> timedelta_days(k)) :
             st \in EntryDates, k \in 1..MaxSpan }
    \cup { ("DTSTART" :> st) @@ ("DTEND" :> AddDelta(st, d)) :
             st \in EntryDatetimes, d \in EntryDeltas }
    \cup { ("DTSTART" :> st) @@ ("DURATION" :> d) :
             st \in EntryDatetimes, d \in EntryDeltas \ {0} }

Components ==
    { Prop("SUMMARY", su) @@ Prop("LOCATION", lo) @@ Prop("RRULE", rr)
      @@ Prop("DESCRIPTION", de) @@ tp :
        su \in Optional(Texts), lo \in Optional(Texts),
        rr \in Optional({"FREQ=WEEKLY"}), de \in Optional(Descriptions),
        tp \in TimeProps }

DisplayZones == {"UTC", "Europe/Prague"}

InitEntry == IdleRun /\ call = NoCall /\ ret = [raised |-> "None", text |-> <<>>]

CallCreateEntry ==
    /\ call = NoCall
    /\ \E comp \in Components, tz \in DisplayZones :
        /\ call' = [fn |-> "create_entry", comp |-> comp, tz |-> tz]
        /\ ret' = create_entry(comp, tz)
        /\ UNCHANGED runVars

NextEntry == CallCreateEntry

SpecEntry == InitEntry /\ [][NextEntry]_vars

Has(comp, key) == key \in DOMAIN comp

Contains(s, p) == \E k \in 1..Len(s) : StartsWith(SubSeq(s, k, Len(s)), p)

\* the text of s up to and including its first line break
FirstLine(s) ==
    LET k == CHOOSE j \in 1..Len(s) : s[j] = "\n" /\ \A h \in 1..(j - 1) : s[h] # "\n"
    IN  SubSeq(s, 1, k)

\* an all-day occurrence: a plain-date start, and an end given by DTEND or DURATION
AllDay(comp) ==
    /\ Has(comp, "DTSTART") /\ comp["DTSTART"].kind = "date"
    /\ Has(comp, "DTEND") \/ Has(comp, "DURATION")

\* day number of the exclusive end of an all-day occurrence
EndDay(comp) ==
    IF Has(comp, "DTEND") THEN comp["DTEND"].val
    ELSE comp["DTSTART"].val + (comp["DURATION"] \div 1440)

DayValue(n) == [kind |-> "date", val |-> n, off |-> 0]

\* C1: an all-day occurrence is rendered as the single date orgDate(start), with
\* no range, exactly when start = end - 1 day, and otherwise as the range
\* orgDate(start)--orgDate(end - 1 day).
C1_AllDayTimestamp ==
    (call.fn = "create_entry" /\ AllDay(call.comp)) =>
        LET comp   == call.comp
            start  == comp["DTSTART"]
            last   == DayValue(EndDay(comp) - 1)
            single == <<" ", " ">> \o orgDate(start, call.tz) \o <<"\n">>
            range  == <<" ", " ">> \o orgDate(start, call.tz) \o <<"-", "-">>
                      \o orgDate(last, call.tz) \o <<"\n">>
        IN  /\ ret.raised = "None"
            /\ ret.text = HeadingLine(comp)
                          \o (IF start.val = EndDay(comp) - 1 THEN single ELSE range)
                          \o DescriptionBlock(comp) \o <<"\n">>
            /\ Contains(ret.text, <<"-", "-">>) <=> start.val # EndDay(comp) - 1

\* 2020-01-01 to 2020-01-04 is rendered as <2020-01-01 Wed>--<2020-01-03 Fri>,
\* and 2020-01-01 to 2020-01-02 as <2020-01-01 Wed> alone
C1_Witness ==
    /\ call.fn = "create_entry"
    /\ AllDay(call.comp)
    /\ call.comp["DTSTART"].val = 18262
    /\ \/ /\ EndDay(call.comp) = 18265
          /\ Contains(ret.text,
                <<" ", " ", "<","2","0","2","0","-","0","1","-","0","1"," ","W","e","d",">",
                  "-", "-", "<","2","0","2","0","-","0","1","-","0","3"," ","F","r","i",">", "\n">>)
       \/ /\ EndDay(call.comp) = 18263
          /\ Contains(ret.text,
                <<" ", " ", "<","2","0","2","0","-","0","1","-","0","1"," ","W","e","d",">", "\n">>)

\* C2: the heading is "* " + title + tag + newline; the title is (No title) when
\* summary and location are both empty or absent, otherwise the summary followed
\* by " - " + location only for a non-empty location; the tag is a tab and
\* :RECURRING: exactly when the occurrence has a recurrence rule.
C2_Heading ==
    (call.fn = "create_entry" /\ ret.raised = "None") =>
        LET comp     == call.comp
            summary  == FieldText(comp, "SUMMARY")
            location == FieldText(comp, "LOCATION")
            title    == IF summary = <<>> /\ location = <<>> THEN NoTitle
                        ELSE IF location = <<>> THEN summary
                        ELSE summary \o <<" ", "-", " ">> \o location
            tag      == IF Has(comp, "RRULE") THEN RECUR_TAG ELSE <<>>
        IN  /\ FirstLine(ret.text) = <<"*", " ">> \o title \o tag \o <<"\n">>
            /\ FirstLine(ret.text) # <<"*", " ", "\n">>
            /\ Contains(FirstLine(ret.text), RECUR_TAG) <=> Has(comp, "RRULE")
            /\ Contains(FirstLine(ret.text), <<" ", "-", " ">>) <=> location # <<>>

\* a recurring occurrence with a summary and no location, and one with neither
C2_Witness ==
    /\ call.fn = "create_entry"
    /\ ret.raised = "None"
    /\ Has(call.comp, "RRULE")
    /\ \/ /\ Has(call.comp, "SUMMARY") /\ call.comp["SUMMARY"] = <<"a">>
          /\ ~Has(call.comp, "LOCATION")
          /\ FirstLine(ret.text) = <<"*", " ", "a">> \o RECUR_TAG \o <<"\n">>
       \/ /\ Has(call.comp, "SUMMARY") /\ call.comp["SUMMARY"] = <<>>
          /\ ~Has(call.comp, "LOCATION")
          /\ FirstLine(ret.text) = <<"*", " ">> \o NoTitle \o RECUR_TAG \o <<"\n">>

\* C3: create_entry is total over occurrences that have a start: with DURATION
\* and no DTEND the timestamp line uses end = start + duration, and with neither
\* it returns heading, optional description and blank line with no interval.
C3_TotalOverStart ==
    (call.fn = "create_entry" /\ Has(call.comp, "DTSTART")) =>
        LET comp == call.comp
        IN  /\ ret.raised = "None"
            /\ (~Has(comp, "DTEND") /\ Has(comp, "DURATION")) =>
                   ret.text = HeadingLine(comp)
                              \o TimestampLine(comp["DTSTART"],
                                               AddDelta(comp["DTSTART"], comp["DURATION"]),
                                               call.tz).text
                              \o DescriptionBlock(comp) \o <<"\n">>
            /\ (~Has(comp, "DTEND") /\ ~Has(comp, "DURATION")) =>
                   ret.text = HeadingLine(comp) \o DescriptionBlock(comp) \o <<"\n">>

-----------------------------------------------------------------------------
(* The command-line run: main, Convertor.__call__, create_org_calendar.     *)

\* most occurrences the expander yields in one run
MaxOcc == 3

\* values given to --days and --timezone ("None": the option is not given)
DaysArgs == {0 - 5, 0, 90}

TimezoneArgs == {"None", "Europe/Prague", "Mars/Olympus"}

\* messages of the ValueError that Calendar.from_ical raises
ParserMessages == {"Content line could not be parsed into parts", "Expected BEGIN"}

\* occurrences the expander yields: three that format and two that do not
Occurrences ==
    { ("SUMMARY" :> <<"a">>) @@ ("DTSTART" :> DayValue(18262)) @@ ("DTEND" :> DayValue(18263)),
      ("SUMMARY" :> <<"a", ",">>) @@ ("RRULE" :> "FREQ=WEEKLY")
         @@ ("DTSTART" :> [kind |-> "datetime", val |-> 17531 * 1440 + 1410, off |-> 0])
         @@ ("DTEND" :> [kind |-> "datetime", val |-> 17531 * 1440 + 1500, off |-> 0]),
      ("DESCRIPTION" :> <<"a", "\n", ",", "b">>),
      ("SUMMARY" :> <<"a">>) @@ ("DTSTART" :> DayValue(18262)),
      ("LOCATION" :> <<"a">>)
         @@ ("DTSTART" :> [kind |-> "datetime", val |-> 17515 * 1440 + 1055, off |-> 0]) }

RECURSIVE SeqsUpTo(_, _)
SeqsUpTo(S, n) ==
    IF n = 0 THEN {<<>>}
    ELSE LET shorter == SeqsUpTo(S, n - 1)
         IN  shorter \cup { Append(q, x) : q \in shorter, x \in S }

InputFiles ==
    { [ok |-> FALSE, error |-> m, events |-> <<>>] : m \in ParserMessages }
    \cup { [ok |-> TRUE, error |-> "", events |-> evs] : evs \in SeqsUpTo(Occurrences, MaxOcc) }

Init ==
    /\ pc = "cli"
    /\ argv \in [days : DaysArgs, timezone : TimezoneArgs, continue_on_error : BOOLEAN]
    /\ infile \in InputFiles
    /\ convertor = [tz |-> "None", days |-> 0, continue_on_error |-> FALSE]
    /\ idx = 0
    /\ blocks = <<>>
    /\ written = <<>>
    /\ stdout = <<>>
    /\ stderr = <<>>
    /\ exc = NoExc
    /\ call = NoCall
    /\ ret = <<>>

\* click.IntRange(0, clamp=True)
IntRange(value) == IF value < 0 THEN 0 ELSE value

\* check_timezone accepting every value
check_timezone_AcceptAll(value) == TRUE

\* check_timezone accepts the value: no --timezone, or a known name
check_timezone(value) == value = "None" \/ value \in all_timezones

\* main is entered with the converted options and constructs the Convertor, or
\* the --timezone callback reports the value and exits with status 1
CommandLine ==
    /\ pc = "cli"
    /\ IF check_timezone(argv.timezone)
       THEN /\ \E localzone \in DisplayZones :
                 convertor' = [tz |-> IF argv.timezone # "None" THEN argv.timezone
                                      ELSE localzone,
                               days |-> IntRange(argv.days),
                               continue_on_error |-> argv.continue_on_error]
            /\ pc' = "convert"
            /\ UNCHANGED <<stdout, exc>>
       ELSE /\ stdout' = stdout \o <<"Invalid timezone value " \o argv.timezone \o ".",
                                     "Use --print-timezones to show acceptable values.">>
            /\ exc' = [type |-> "Exit", msg |-> "1"]
            /\ pc' = "exit"
            /\ UNCHANGED convertor
    /\ UNCHANGED <<argv, infile, idx, blocks, written, stderr, call, ret>>

\* the parse error swallowed
ParseInput_Swallow(file) == [raised |-> NoExc]

\* Calendar.from_ical(fh.read()): the calendar, or the IcalParsingError raised
ParseInput(file) ==
    IF file.ok
    THEN [raised |-> NoExc]
    ELSE [raised |-> [type |-> "IcalParsingError",
                      msg |-> "ERROR parsing ical file: " \o file.error]]

\* Convertor.__call__ up to the call of "".join on the generator
CallConvertor ==
    /\ pc = "convert"
    /\ IF ParseInput(infile).raised = NoExc
       THEN pc' = "iterate" /\ UNCHANGED exc
       ELSE pc' = "raised" /\ exc' = ParseInput(infile).raised
    /\ UNCHANGED <<argv, infile, convertor, idx, blocks, written, stdout, stderr, call, ret>>

\* the except clause re-raising whatever the flag says
ExceptHandler_AlwaysRaise(continue_on_error) == "raise"

\* the except clause going on whatever the flag says
ExceptHandler_AlwaysContinue(continue_on_error) == "continue"

\* the except clause of create_org_calendar: go on to the next occurrence, or re-raise
ExceptHandler(continue_on_error) == IF continue_on_error THEN "continue" ELSE "raise"

\* what the except clause prints for comp and the exception raised
Diagnostic(comp, raised, continue_on_error) ==
    << [print |-> "text", text |-> "Exception when processing:\n"],
       [print |-> "to_ical", comp |-> comp] >>
    \o (IF continue_on_error THEN <<[print |-> "traceback", raised |-> raised]>> ELSE <<>>)

\* one iteration of the loop of create_org_calendar, driven by "".join
NextOccurrence ==
    /\ pc = "iterate"
    /\ idx < Len(infile.events)
    /\ idx' = idx + 1
    /\ LET comp  == infile.events[idx + 1]
           entry == create_entry(comp, convertor.tz)
       IN  IF entry.raised = "None"
           THEN /\ blocks' = Append(blocks, entry.text)
                /\ UNCHANGED <<pc, stderr, exc>>
           ELSE /\ stderr' = stderr \o Diagnostic(comp, entry.raised, convertor.continue_on_error)
                /\ IF ExceptHandler(convertor.continue_on_error) = "continue"
                   THEN UNCHANGED <<pc, exc>>
                   ELSE pc' = "raised" /\ exc' = [type |-> entry.raised, msg |-> ""]
                /\ UNCHANGED blocks
    /\ UNCHANGED <<argv, infile, convertor, written, stdout, call, ret>>

\* every block written as soon as it is yielded
WriteOutput_Incremental ==
    /\ pc = "iterate"
    /\ blocks # <<>> \/ idx = Len(infile.events)
    /\ written' = Append(written, Flatten(blocks))
    /\ blocks' = <<>>
    /\ pc' = IF idx = Len(infile.events) THEN "done" ELSE "iterate"
    /\ UNCHANGED <<argv, infile, convertor, idx, stdout, stderr, exc, call, ret>>

\* fh_w.write("".join(...)) once the generator is exhausted
WriteOutput ==
    /\ pc = "iterate"
    /\ idx = Len(infile.events)
    /\ written' = Append(written, Flatten(blocks))
    /\ pc' = "done"
    /\ UNCHANGED <<argv, infile, convertor, idx, blocks, stdout, stderr, exc, call, ret>>

\* main: IcalParsingError is echoed to stderr and becomes click.Abort; any other
\* exception leaves main
HandleException ==
    /\ pc = "raised"
    /\ IF exc.type = "IcalParsingError"
       THEN /\ stderr' = Append(stderr, [print |-> "text", text |-> exc.msg])
            /\ exc' = [type |-> "Abort", msg |-> ""]
            /\ pc' = "aborted"
       ELSE /\ pc' = "crashed"
            /\ UNCHANGED <<stderr, exc>>
    /\ UNCHANGED <<argv, infile, convertor, idx, blocks, written, stdout, call, ret>>

Next == CommandLine \/ CallConvertor \/ NextOccurrence \/ WriteOutput \/ HandleException

Spec == Init /\ [][Next]_vars

-----------------------------------------------------------------------------
(* Properties of the command-line run.                                      *)

Formats(comp, tz) == create_entry(comp, tz).raised = "None"

\* the occurrences among evs that format, and those that do not, in order
Formatting(evs, tz) == LET Ok(e) == Formats(e, tz) IN SelectSeq(evs, Ok)

Failing(evs, tz) == LET Bad(e) == ~Formats(e, tz) IN SelectSeq(evs, Bad)

\* the blocks of the occurrences of evs that format, concatenated in order
ExpectedText(evs, tz) ==
    LET ok == Formatting(evs, tz)
    IN  Flatten([k \in 1..Len(ok) |-> create_entry(ok[k], tz).text])

\* the components stderr reports, in order
Reported == LET IsComp(d) == d.print = "to_ical"
            IN  [k \in 1..Len(SelectSeq(stderr, IsComp)) |-> SelectSeq(stderr, IsComp)[k].comp]

Tracebacks == LET IsTrace(d) == d.print = "traceback" IN Len(SelectSeq(stderr, IsTrace))

\* index of the first occurrence of evs that does not format, 0 if all do
FirstBad(evs, tz) ==
    IF \E k \in 1..Len(evs) : ~Formats(evs[k], tz)
    THEN CHOOSE k \in 1..Len(evs) :
             ~Formats(evs[k], tz) /\ \A h \in 1..(k - 1) : Formats(evs[h], tz)
    ELSE 0

Converting == pc \notin {"cli", "exit", "idle"}

\* C4: with continue-on-error the run does not abort, and what is written is the
\* concatenation, in expander order, of the blocks of the occurrences that
\* format; each failing occurrence is reported and contributes no text.
C4_ContinueOnError ==
    (Converting /\ infile.ok /\ argv.continue_on_error) =>
        /\ pc \in {"convert", "iterate", "done"}
        /\ exc = NoExc
        /\ pc = "iterate" => idx <= Len(infile.events)   \* a next occurrence, or the write
        /\ pc \in {"iterate", "done"} =>
              /\ Flatten(blocks) = ExpectedText(SubSeq(infile.events, 1, idx), convertor.tz)
              /\ Reported = Failing(SubSeq(infile.events, 1, idx), convertor.tz)
              /\ Tracebacks = Len(Reported)
        /\ pc = "done" =>
              /\ idx = Len(infile.events)
              /\ written = <<ExpectedText(infile.events, convertor.tz)>>

\* a failing occurrence between two that format, and the run completed
C4_Witness ==
    /\ Converting /\ infile.ok /\ argv.continue_on_error
    /\ pc = "done"
    /\ Len(infile.events) = 3
    /\ Formats(infile.events[1], convertor.tz)
    /\ ~Formats(infile.events[2], convertor.tz)
    /\ Formats(infile.events[3], convertor.tz)
    /\ written = <<create_entry(infile.events[1], convertor.tz).text
                   \o create_entry(infile.events[3], convertor.tz).text>>
    /\ Len(stderr) = 3

C5_Aborting ==
    (Converting /\ infile.ok /\ ~argv.continue_on_error
       /\ FirstBad(infile.events, convertor.tz) > 0) =>
        LET k == FirstBad(infile.events, convertor.tz)
        IN  /\ idx <= k
            /\ pc # "done"
            /\ idx < k => pc \in {"convert", "iterate"} /\ exc = NoExc
            /\ idx = k =>
                  /\ pc \in {"raised", "crashed"}
                  /\ exc.type = create_entry(infile.events[k], convertor.tz).raised
                  /\ Reported = <<infile.events[k]>>
            /\ Len(blocks) = idx - (IF idx = k THEN 1 ELSE 0)

\* C5: without continue-on-error the failure of the k-th occurrence ends the run
\* with that failure propagated: no later occurrence is formatted, and from the
\* failure on the output stream keeps exactly what it held.
C5_AbortOnError ==
    /\ []C5_Aborting
    /\ [][exc' # NoExc => written' = written /\ (exc # NoExc => idx' = idx /\ blocks' = blocks)]_vars

\* the second of three occurrences fails after the first formatted
C5_Witness ==
    /\ Converting /\ infile.ok /\ ~argv.continue_on_error
    /\ pc = "crashed"
    /\ Len(infile.events) = 3
    /\ idx = 2
    /\ Len(blocks) = 1
    /\ exc.type \in {"TypeError", "AttributeError"}

\* C6: when parsing the input fails, IcalParsingError carrying the parser's
\* message is raised, the run aborts, no occurrence is formatted and nothing is
\* written.
C6_ParseFailure ==
    (Converting /\ ~infile.ok) =>
        /\ pc \in {"convert", "raised", "aborted"}
        /\ idx = 0 /\ blocks = <<>> /\ written = <<>>
        /\ pc = "convert" => exc = NoExc /\ stderr = <<>>
        /\ pc = "raised" =>
              exc = [type |-> "IcalParsingError",
                     msg |-> "ERROR parsing ical file: " \o infile.error]
        /\ pc = "aborted" =>
              /\ exc.type = "Abort"
              /\ stderr = <<[print |-> "text",
                             text |-> "ERROR parsing ical file: " \o infile.error]>>

C6_Witness ==
    /\ ~infile.ok
    /\ pc = "aborted"
    /\ infile.error = "Expected BEGIN"
    /\ stderr = <<[print |-> "text", text |-> "ERROR parsing ical file: Expected BEGIN"]>>
    /\ written = <<>>

UnknownTimezone == argv.timezone # "None" /\ argv.timezone \notin all_timezones

NothingConverted == idx = 0 /\ blocks = <<>> /\ written = <<>> /\ stderr = <<>>

\* C9 as stated: an unrecognized timezone name or a negative days value is
\* reported and the run exits before the input is parsed.
C9_InvalidConfigurationExits ==
    (UnknownTimezone \/ argv.days < 0) =>
        /\ pc \in {"cli", "exit"}
        /\ NothingConverted
        /\ pc = "exit" => stdout # <<>>

\* C9 amended: an unrecognized timezone name is reported and the run exits before
\* the input is parsed; a negative days value is not rejected but clamped to 0,
\* and the conversion goes on with days = 0.
C9_TimezoneExitsDaysClamped ==
    /\ UnknownTimezone =>
          /\ pc \in {"cli", "exit"}
          /\ NothingConverted
          /\ convertor.tz = "None"
          /\ pc = "exit" =>
                /\ exc = [type |-> "Exit", msg |-> "1"]
                /\ stdout = <<"Invalid timezone value " \o argv.timezone \o ".",
                              "Use --print-timezones to show acceptable values.">>
    /\ (~UnknownTimezone /\ pc # "cli") =>
          /\ pc # "exit"
          /\ stdout = <<>>
          /\ convertor.days = (IF argv.days < 0 THEN 0 ELSE argv.days)
          /\ convertor.days >= 0

\* --days -5 with a known timezone: the conversion ran with days = 0 and wrote
C9_Witness ==
    /\ argv.days < 0
    /\ ~UnknownTimezone
    /\ pc = "done"
    /\ convertor.days = 0
    /\ Len(written) = 1 /\ written[1] # <<>>

\* C10: the output stream receives at most one write, only after every
\* occurrence has been formatted; a run that aborts has written nothing.
C10_SingleWriteAtEnd ==
    /\ Len(written) <= 1
    /\ written # <<>> => pc = "done" /\ idx = Len(infile.events)
    /\ pc = "done" => Len(written) = 1
    /\ pc \in {"exit", "raised", "aborted", "crashed"} => written = <<>>

\* the run crashed after an occurrence had formatted: its block was never written
C10_Witness ==
    /\ pc = "crashed"
    /\ blocks # <<>>
    /\ written = <<>>

====
